---- MODULE Spec2Model ----
(***************************************************************************)
(* A model of src/huffman_coding.py: the Node comparator, the HuffmanCoding *)
(* instance (its min-heap and its two code tables, which live as long as    *)
(* the instance does), and its two public operations, compress and          *)
(* decompress.  compress is split at the places where the source moves from *)
(* one private helper to the next, and the merge loop of __build_tree is    *)
(* one step per iteration.                                                  *)
(*                                                                          *)
(* Symbols are one-character strings, bit strings are sequences of 0 and 1, *)
(* the files the two operations write are sequences of byte values.         *)
(***************************************************************************)
EXTENDS Integers, Sequences, FiniteSets, TLC

\* ------------------------------------------------------------------ bounds
\* Longest input file, in characters.
MaxLen == 4
\* Number of compress calls made on the one HuffmanCoding instance.
MaxCalls == 2

\* The characters an input file is written with; " " is whitespace, which
\* compress strips from the end of what it reads.
Symbols == {"a", "b", " "}
Whitespace == {" "}

\* Node.key of an internal node, and the absent child of a leaf.
None == "None"

VARIABLES
    pc,                        \* where the instance is: idle, or inside a call
    calls,                     \* compress calls started so far
    min_heap,                  \* self.__min_heap
    codes_hash_table,          \* self.__codes_hash_table
    reverse_codes_hash_table,  \* self.__reverse_codes_hash_table
    text,                      \* compress's local: the stripped input
    root,                      \* the node compress popped for __build_codes
    merges,                    \* iterations of __build_tree's loop in this call
    bin_bytes,                 \* the file compress writes
    stream,                    \* decompress's input: the bytes of the file read
    decompressed_text,         \* decompress's local: the text it decoded
    error                      \* the exception the last call raised, or "none"

vars == <<pc, calls, min_heap, codes_hash_table, reverse_codes_hash_table,
          text, root, merges, bin_bytes, stream, decompressed_text, error>>

\* ----------------------------------------------------------------- helpers
Max(a, b) == IF a > b THEN a ELSE b
Min(a, b) == IF a < b THEN a ELSE b

\* A Python dict: the empty one, membership, and d[k] = v.
EmptyDict == [k \in {} |-> k]
DictPut(d, k, v) == [x \in (DOMAIN d) \cup {k} |-> IF x = k THEN v ELSE d[x]]

\* s[lo:hi] of Python for 0 <= lo, 0 <= hi.
Slice(s, lo, hi) == SubSeq(s, lo + 1, Min(hi, Len(s)))

\* ------------------------------------------------------------------- Node
Node(key, freq) == [key |-> key, freq |-> freq, left |-> <<>>, right |-> <<>>]

\* Node.__lt__ with the comparison turned round.
LtReversed(self, other) == self.freq > other.freq

Lt(self, other) == self.freq < other.freq

\* ------------------------------------------------------------------ heapq
\* heapq keeps the list a binary heap under Node.__lt__; positions are the
\* 0-based ones of the Python list, heap[pos + 1] is the element there.
RECURSIVE SiftDown(_, _, _, _)
SiftDown(heap, newitem, startpos, pos) ==
    IF pos > startpos
    THEN LET parentpos == (pos - 1) \div 2
             parent    == heap[parentpos + 1]
         IN  IF Lt(newitem, parent)
             THEN SiftDown([heap EXCEPT ![pos + 1] = parent], newitem,
                           startpos, parentpos)
             ELSE [heap EXCEPT ![pos + 1] = newitem]
    ELSE [heap EXCEPT ![pos + 1] = newitem]

RECURSIVE SiftUp(_, _, _, _)
SiftUp(heap, newitem, startpos, pos) ==
    LET endpos   == Len(heap)
        leftpos  == 2 * pos + 1
        rightpos == leftpos + 1
    IN  IF leftpos < endpos
        THEN LET childpos ==
                     IF rightpos < endpos
                        /\ ~Lt(heap[leftpos + 1], heap[rightpos + 1])
                     THEN rightpos
                     ELSE leftpos
             IN  SiftUp([heap EXCEPT ![pos + 1] = heap[childpos + 1]],
                        newitem, startpos, childpos)
        ELSE SiftDown([heap EXCEPT ![pos + 1] = newitem], newitem,
                      startpos, pos)

\* heapq.heappush(heap, item): the heap afterwards.
HeapPush(heap, item) == SiftDown(Append(heap, item), item, 0, Len(heap))

\* heapq.heappop(heap) of a non-empty heap: the item popped and the heap
\* afterwards.
HeapPop(heap) ==
    LET lastelt == heap[Len(heap)]
        rest    == SubSeq(heap, 1, Len(heap) - 1)
    IN  IF rest = <<>>
        THEN [item |-> lastelt, heap |-> rest]
        ELSE [item |-> rest[1], heap |-> SiftUp(rest, lastelt, 0, 0)]

\* ---------------------------------------------------------- HuffmanCoding
\* file.read().rstrip(): the content without its trailing whitespace.
RECURSIVE RStrip(_)
RStrip(s) ==
    IF s # <<>> /\ s[Len(s)] \in Whitespace
    THEN RStrip(SubSeq(s, 1, Len(s) - 1))
    ELSE s

\* Counter(text): the keys in the order a dict keeps them (first occurrence)
\* and each key's count.
RECURSIVE FreqKeys(_)
FreqKeys(t) ==
    IF t = <<>> THEN <<>>
    ELSE LET init == FreqKeys(SubSeq(t, 1, Len(t) - 1))
             last == t[Len(t)]
         IN  IF \E i \in 1..Len(init) : init[i] = last
             THEN init
             ELSE Append(init, last)

FreqCount(t, key) == Cardinality({i \in 1..Len(t) : t[i] = key})

\* __build_heap: one Node per key of freq_dict, pushed in the dict's order.
RECURSIVE BuildHeapFrom(_, _, _)
BuildHeapFrom(heap, keys, t) ==
    IF keys = <<>> THEN heap
    ELSE BuildHeapFrom(HeapPush(heap, Node(keys[1], FreqCount(t, keys[1]))),
                       Tail(keys), t)

BuildHeap(heap, t) == BuildHeapFrom(heap, FreqKeys(t), t)

\* An internal node that is given the frequency of its first child alone.
FreqSumLeft(node_1, node_2) == node_1.freq

\* The frequency an internal node is given.
FreqSum(node_1, node_2) == node_1.freq + node_2.freq

\* One iteration of __build_tree's loop on a heap of two or more nodes.
MergeStep(heap) ==
    LET p1       == HeapPop(heap)
        p2       == HeapPop(p1.heap)
        node_1   == p1.item
        node_2   == p2.item
        new_node == [key |-> None, freq |-> FreqSum(node_1, node_2),
                     left |-> <<node_1>>, right |-> <<node_2>>]
    IN  HeapPush(p2.heap, new_node)

\* The bit __build_codes appends on the way to the left and the right child.
LeftBit == <<0>>

\* A right child that is given the bit of the left child.
RightBitAsLeft == <<0>>

RightBit == <<1>>

\* __build_codes(node, bin_code) on the two tables tabs.codes and
\* tabs.reverse; a child is <<>> (None) or <<node>>.
RECURSIVE BuildCodes(_, _, _)
BuildCodes(tabs, child, bin_code) ==
    IF child = <<>> THEN tabs
    ELSE LET node == child[1]
             here == IF node.key # None
                     THEN [codes   |-> DictPut(tabs.codes, node.key, bin_code),
                           reverse |-> DictPut(tabs.reverse, bin_code, node.key)]
                     ELSE tabs
             lft  == BuildCodes(here, node.left, bin_code \o LeftBit)
         IN  BuildCodes(lft, node.right, bin_code \o RightBit)

\* "{0:08b}".format(n), and bin(n)[2:].rjust(8, '0'): n in binary, most
\* significant bit first, at least 8 digits.
RECURSIVE Binary(_)
Binary(n) == IF n < 2 THEN <<n>> ELSE Binary(n \div 2) \o <<n % 2>>

RECURSIVE RJust8(_)
RJust8(bits) == IF Len(bits) >= 8 THEN bits ELSE RJust8(<<0>> \o bits)

Format08b(n) == RJust8(Binary(n))

\* int(bits, 2) of a non-empty bit string.
RECURSIVE IntBase2(_)
IntBase2(bits) ==
    IF bits = <<>> THEN 0
    ELSE 2 * IntBase2(SubSeq(bits, 1, Len(bits) - 1)) + bits[Len(bits)]

\* The concatenation of the characters' codes, in the order of the text.
RECURSIVE CodeBits(_, _)
CodeBits(codes, t) ==
    IF t = <<>> THEN <<>> ELSE codes[t[1]] \o CodeBits(codes, Tail(t))

\* A padding that is left out when the code bits already fill whole bytes.
PadAmountAligned(len) == (8 - (len % 8)) % 8

\* The number of padding bits __encode_text adds to len code bits.
PadAmount(len) == 8 - (len % 8)

Zeros(n) == [i \in 1..n |-> 0]

\* __encode_text: pad header, code bits, padding.
EncodeText(codes, t) ==
    LET encoded_text == CodeBits(codes, t)
        pad_amount   == PadAmount(Len(encoded_text))
    IN  Format08b(pad_amount) \o encoded_text \o Zeros(pad_amount)

\* __encoded_to_bin: one number per chunk of 8 bits.
RECURSIVE EncodedToBin(_)
EncodedToBin(encoded_text) ==
    IF encoded_text = <<>> THEN <<>>
    ELSE <<IntBase2(Slice(encoded_text, 0, 8))>>
         \o EncodedToBin(Slice(encoded_text, 8, Len(encoded_text)))

\* decompress's reading loop: every byte as 8 bits.
RECURSIVE BitString(_)
BitString(bytes) ==
    IF bytes = <<>> THEN <<>>
    ELSE Format08b(bytes[1]) \o BitString(Tail(bytes))

\* __remove_pad: bit_string[8:-pad_info].  A slice end of -0 is the index 0,
\* a negative end counts from the end and stops at the start.
RemovePad(bit_string) ==
    LET pad_info == IntBase2(Slice(bit_string, 0, 8))
        end      == IF pad_info = 0 THEN 0
                    ELSE Max(Len(bit_string) - pad_info, 0)
    IN  Slice(bit_string, 8, end)

\* __decode_text's loop from bit i on: the text decoded and the bits that
\* are left in curr_bits when the bit string ends.
RECURSIVE DecodeFrom(_, _, _, _, _)
DecodeFrom(reverse, compressed_text, i, decoded_text, curr_bits) ==
    IF i > Len(compressed_text)
    THEN [text |-> decoded_text, rest |-> curr_bits]
    ELSE LET bits == Append(curr_bits, compressed_text[i])
         IN  IF bits \in DOMAIN reverse
             THEN DecodeFrom(reverse, compressed_text, i + 1,
                             Append(decoded_text, reverse[bits]), <<>>)
             ELSE DecodeFrom(reverse, compressed_text, i + 1,
                             decoded_text, bits)

DecodeText(reverse, compressed_text) ==
    DecodeFrom(reverse, compressed_text, 1, <<>>, <<>>).text

\* ------------------------------------------------------------ the instance
\* Every input file of at most MaxLen characters.
Files == UNION {[1..n -> Symbols] : n \in 0..MaxLen}

\* What decompress may be handed once compress has written bin_bytes: the
\* file as written, the file without its last byte, and the file with another
\* value in its first byte.
TamperedHeaders == {0, 9}

Streams(bytes) ==
    {bytes}
    \cup {SubSeq(bytes, 1, Len(bytes) - 1) : x \in {y \in {0} : bytes # <<>>}}
    \cup {[bytes EXCEPT ![1] = h] : h \in {y \in TamperedHeaders : bytes # <<>>}}

\* HuffmanCoding(path): an empty heap and two empty tables.
Init ==
    /\ pc = "idle"
    /\ calls = 0
    /\ min_heap = <<>>
    /\ codes_hash_table = EmptyDict
    /\ reverse_codes_hash_table = EmptyDict
    /\ text = <<>>
    /\ root = <<>>
    /\ merges = 0
    /\ bin_bytes = <<>>
    /\ stream = <<>>
    /\ decompressed_text = <<>>
    /\ error = "none"

\* compress, up to the end of __build_heap: the output file is opened (and
\* so emptied), the input is read and stripped, its characters are counted
\* and one leaf per character is pushed.
Compress(file) ==
    /\ pc = "idle"
    /\ calls < MaxCalls
    /\ pc' = "build_tree"
    /\ calls' = calls + 1
    /\ text' = RStrip(file)
    /\ min_heap' = BuildHeap(min_heap, RStrip(file))
    /\ bin_bytes' = <<>>
    /\ root' = <<>>
    /\ merges' = 0
    /\ error' = "none"
    /\ UNCHANGED <<codes_hash_table, reverse_codes_hash_table, stream,
                   decompressed_text>>

\* __build_tree, one iteration of its loop.
BuildTreeStep ==
    /\ pc = "build_tree"
    /\ Len(min_heap) > 1
    /\ min_heap' = MergeStep(min_heap)
    /\ merges' = merges + 1
    /\ UNCHANGED <<pc, calls, codes_hash_table, reverse_codes_hash_table,
                   text, root, bin_bytes, stream, decompressed_text, error>>

\* __build_tree, leaving its loop.
BuildTreeDone ==
    /\ pc = "build_tree"
    /\ ~(Len(min_heap) > 1)
    /\ pc' = "build_codes"
    /\ UNCHANGED <<calls, min_heap, codes_hash_table,
                   reverse_codes_hash_table, text, root, merges, bin_bytes,
                   stream, decompressed_text, error>>

\* heapq.heappop of the root and __build_codes from it.
BuildCodesStep ==
    /\ pc = "build_codes"
    /\ min_heap # <<>>
    /\ LET popped == HeapPop(min_heap)
           tabs   == BuildCodes([codes   |-> codes_hash_table,
                                 reverse |-> reverse_codes_hash_table],
                                <<popped.item>>, <<>>)
       IN  /\ min_heap' = popped.heap
           /\ root' = <<popped.item>>
           /\ codes_hash_table' = tabs.codes
           /\ reverse_codes_hash_table' = tabs.reverse
    /\ pc' = "encode"
    /\ UNCHANGED <<calls, text, merges, bin_bytes, stream,
                   decompressed_text, error>>

\* heapq.heappop of an empty heap raises IndexError, which leaves compress;
\* the output file stays as it was opened, empty.
BuildCodesEmptyHeap ==
    /\ pc = "build_codes"
    /\ min_heap = <<>>
    /\ pc' = "idle"
    /\ error' = "IndexError"
    /\ UNCHANGED <<calls, min_heap, codes_hash_table,
                   reverse_codes_hash_table, text, root, merges, bin_bytes,
                   stream, decompressed_text>>

\* __encode_text, __encoded_to_bin and the write of the bytes.
Encode ==
    /\ pc = "encode"
    /\ bin_bytes' = EncodedToBin(EncodeText(codes_hash_table, text))
    /\ pc' = "idle"
    /\ UNCHANGED <<calls, min_heap, codes_hash_table,
                   reverse_codes_hash_table, text, root, merges, stream,
                   decompressed_text, error>>

\* decompress of a file that holds at least one byte, up to the end of
\* __decode_text.
Decompress(bytes) ==
    /\ pc = "idle"
    /\ calls > 0
    /\ bytes # <<>>
    /\ pc' = "decompressed"
    /\ stream' = bytes
    /\ decompressed_text' =
           DecodeText(reverse_codes_hash_table, RemovePad(BitString(bytes)))
    /\ error' = "none"
    /\ UNCHANGED <<calls, min_heap, codes_hash_table,
                   reverse_codes_hash_table, text, root, merges, bin_bytes>>

\* decompress writes the decoded text and returns; its locals are gone.
DecompressReturn ==
    /\ pc = "decompressed"
    /\ pc' = "idle"
    /\ stream' = <<>>
    /\ decompressed_text' = <<>>
    /\ UNCHANGED <<calls, min_heap, codes_hash_table,
                   reverse_codes_hash_table, text, root, merges, bin_bytes,
                   error>>

\* decompress of an empty file: int("", 2) raises ValueError in
\* __remove_pad, which leaves decompress.
DecompressEmpty ==
    /\ pc = "idle"
    /\ calls > 0
    /\ bin_bytes = <<>>
    /\ error' = "ValueError"
    /\ UNCHANGED <<pc, calls, min_heap, codes_hash_table,
                   reverse_codes_hash_table, text, root, merges, bin_bytes,
                   stream, decompressed_text>>

Next ==
    \/ \E file \in Files : Compress(file)
    \/ BuildTreeStep
    \/ BuildTreeDone
    \/ BuildCodesStep
    \/ BuildCodesEmptyHeap
    \/ Encode
    \/ \E bytes \in Streams(bin_bytes) : Decompress(bytes)
    \/ DecompressReturn
    \/ DecompressEmpty

Spec == Init /\ [][Next]_vars

\* ---------------------------------------------------- what the claims use
\* The distinct characters of the input of the current compress call.
KeySet == {text[i] : i \in DOMAIN text}

IsPrefix(p, s) == Len(p) <= Len(s) /\ SubSeq(s, 1, Len(p)) = p

\* compress has built the codes of a non-empty input and not yet returned.
CodesBuilt == pc = "encode"

\* compress has returned without raising: its output file holds the bytes.
Compressed == pc = "idle" /\ bin_bytes # <<>>

\* The unpadded code bits of the current input.
Payload == CodeBits(codes_hash_table, text)

\* All nodes of a tree.
RECURSIVE NodesOf(_)
NodesOf(child) ==
    IF child = <<>> THEN {}
    ELSE {child[1]} \cup NodesOf(child[1].left) \cup NodesOf(child[1].right)

\* The leaves of a tree with the left = 0 / right = 1 path that leads to each.
RECURSIVE LeafPaths(_, _)
LeafPaths(child, path) ==
    IF child = <<>> THEN {}
    ELSE IF child[1].left = <<>> /\ child[1].right = <<>>
         THEN {<<child[1].key, path>>}
         ELSE LeafPaths(child[1].left, Append(path, 0))
              \cup LeafPaths(child[1].right, Append(path, 1))

HeapNodes(heap) == {heap[i] : i \in DOMAIN heap}

\* __build_tree run to its end, and compress on a new instance.
RECURSIVE BuildTree(_)
BuildTree(heap) == IF Len(heap) > 1 THEN BuildTree(MergeStep(heap)) ELSE heap

FreshTables(t) ==
    BuildCodes([codes |-> EmptyDict, reverse |-> EmptyDict],
               <<HeapPop(BuildTree(BuildHeap(<<>>, t))).item>>, <<>>)

FreshBytes(t) == EncodedToBin(EncodeText(FreshTables(t).codes, t))

\* Every bit string of at most k bits, and every prefix-free assignment of
\* such bit strings to the characters keys.
BitStrings(k) == UNION {[1..n -> {0, 1}] : n \in 0..k}

PrefixFreeCodes(keys, k) ==
    {c \in [keys -> BitStrings(k)] :
        \A s, t \in keys : s # t => ~IsPrefix(c[s], c[t])}

\* The frequencies of an input, in the order of its keys, and every such
\* vector an input of at most MaxLen characters can have.
FreqVector(t) == [i \in 1..Len(FreqKeys(t)) |-> FreqCount(t, FreqKeys(t)[i])]

RECURSIVE SumTo(_, _)
SumTo(f, n) == IF n = 0 THEN 0 ELSE f[n] + SumTo(f, n - 1)

FreqVectors ==
    {fv \in UNION {[1..n -> 1..MaxLen] : n \in 1..Cardinality(Symbols)} :
        SumTo(fv, Len(fv)) <= MaxLen}

\* The sum over the positions of fv of frequency times code length.
WeightedLength(fv, c) == SumTo([i \in 1..Len(fv) |-> fv[i] * Len(c[i])], Len(fv))

\* For every frequency vector, the least weighted length a prefix-free code
\* of codes of at most Len(fv) bits has, found by trying them all.
LeastWeightedLength ==
    {<<fv, CHOOSE m \in {WeightedLength(fv, c) :
                             c \in PrefixFreeCodes(1..Len(fv), Len(fv))} :
               \A c \in PrefixFreeCodes(1..Len(fv), Len(fv)) :
                   m <= WeightedLength(fv, c)>> : fv \in FreqVectors}

\* The codes the table holds for the keys of the input, in their order.
CodeVector(codes, t) == [i \in 1..Len(FreqKeys(t)) |-> codes[FreqKeys(t)[i]]]

\* ------------------------------------------------------------------ claims

\* C1: compress of a non-empty input followed by decompress of the bytes
\* compress wrote, with the tables that compress built, gives the input back.
C1_RoundTrip ==
    (pc = "decompressed" /\ stream = bin_bytes) => decompressed_text = text

\* C2: for an input of one distinct character the tree is a single leaf built
\* with no merge, and the character's code is not empty, so that the payload
\* holds one code per occurrence.
C2_SingleSymbolCode ==
    (CodesBuilt /\ Cardinality(KeySet) = 1) =>
        /\ merges = 0
        /\ root[1].left = <<>> /\ root[1].right = <<>>
        /\ \A s \in KeySet : codes_hash_table[s] # <<>>
        /\ Len(Payload) >= Len(text)

\* C3: the codes one build gives to the characters of its input are
\* prefix-free: for two distinct characters neither code is a prefix of the
\* other.
C3_PrefixFree ==
    CodesBuilt =>
        \A s, t \in KeySet :
            s # t => ~IsPrefix(codes_hash_table[s], codes_hash_table[t])

\* Codes were built for an input of three distinct characters, on an
\* instance that had compressed another input before.
C3_Witness ==
    /\ CodesBuilt
    /\ Cardinality(KeySet) = 3
    /\ calls = 2

\* C4: the sum of frequency times code length of the codes built is minimal
\* among all prefix-free binary codes for the characters of the input (codes
\* of at most as many bits as there are characters).
C4_Optimal ==
    CodesBuilt =>
        <<FreqVector(text),
          WeightedLength(FreqVector(text),
                         CodeVector(codes_hash_table, text))>>
            \in LeastWeightedLength

\* Three characters, two of them equally frequent and the third more
\* frequent: a tie in the heap, and code lengths that differ.
C4_Witness ==
    /\ CodesBuilt
    /\ Cardinality(KeySet) = 3
    /\ \E s, t \in KeySet : s # t /\ FreqCount(text, s) = FreqCount(text, t)
    /\ \E s, t \in KeySet : FreqCount(text, s) > FreqCount(text, t)
    /\ \E s, t \in KeySet :
           Len(codes_hash_table[s]) < Len(codes_hash_table[t])

\* C5: with L code bits, pad = 8 - (L mod 8) zero bits are appended, pad is in
\* 1..8 and is 8 when L is a multiple of 8, the first byte written is pad,
\* L + pad bits follow it, a multiple of 8, and removing the pad leaves
\* exactly the L code bits.
C5_Padding ==
    (pc \in {"idle", "decompressed"} /\ bin_bytes # <<>>) =>
        LET L    == Len(Payload)
            pad  == bin_bytes[1]
            bits == BitString(bin_bytes)
        IN  /\ pad = 8 - (L % 8)
            /\ pad \in 1..8
            /\ (L % 8 = 0 => pad = 8)
            /\ Len(bits) - 8 = L + pad
            /\ (Len(bits) - 8) % 8 = 0
            /\ SubSeq(bits, 8 + L + 1, Len(bits)) = Zeros(pad)
            /\ RemovePad(bits) = Payload

\* decompress has read the bytes compress wrote, whose code bits end on a
\* byte boundary, so that a whole byte of padding was added and removed.
C5_Witness ==
    /\ pc = "decompressed"
    /\ stream = bin_bytes
    /\ Len(Payload) % 8 = 0

\* C6: decompress of bytes whose first byte is not in 0..8, or whose bits
\* end, after the pad is removed, in a non-empty candidate that matches no
\* code, signals CorruptStream and gives no decoded text.
C6_CorruptRejected ==
    (/\ pc = "decompressed"
     /\ \/ stream[1] \notin 0..8
        \/ DecodeFrom(reverse_codes_hash_table, RemovePad(BitString(stream)),
                      1, <<>>, <<>>).rest # <<>>)
    => (error = "CorruptStream" /\ decompressed_text = <<>>)

\* C7: when compress returns, the two tables hold exactly the codes of the
\* input just compressed, and the bytes written are those a new instance
\* writes for that input.
C7_NoCarryOver ==
    (pc = "idle" /\ bin_bytes # <<>>) =>
        /\ codes_hash_table = FreshTables(text).codes
        /\ reverse_codes_hash_table = FreshTables(text).reverse
        /\ bin_bytes = FreshBytes(text)

\* C8: compress of an empty input ends without an error and with no bytes
\* written, or signals EmptyAlphabet; no other fault ends it.
C8_EmptyInput ==
    [][(pc = "build_codes" /\ text = <<>> /\ pc' = "idle") =>
           \/ error' = "EmptyAlphabet"
           \/ error' = "none" /\ bin_bytes' = <<>>]_vars

\* C9: from a heap of n >= 1 leaves the loop is left after exactly n - 1
\* merges with one node in the heap, whose frequency is the length of the
\* input; every internal node has two children and the sum of their
\* frequencies; each merge takes the two nodes of lowest frequency out of the
\* heap and puts their parent in, so that the heap is one node shorter and
\* merges + Len(min_heap) stays n while the loop runs.
C9_Variant ==
    pc = "build_tree" => merges + Len(min_heap) = Cardinality(KeySet)

C9_Start ==
    (pc = "build_tree" /\ merges = 0) =>
        /\ Len(min_heap) = Cardinality(KeySet)
        /\ HeapNodes(min_heap)
               = {Node(s, FreqCount(text, s)) : s \in KeySet}

C9_Exit ==
    (pc = "build_codes" /\ text # <<>>) =>
        /\ merges = Cardinality(KeySet) - 1
        /\ Len(min_heap) = 1
        /\ min_heap[1].freq = Len(text)

C9_Internal ==
    \A h \in HeapNodes(min_heap) : \A n \in NodesOf(<<h>>) :
        IF n.key = None
        THEN /\ Len(n.left) = 1 /\ Len(n.right) = 1
             /\ n.freq = n.left[1].freq + n.right[1].freq
        ELSE n.left = <<>> /\ n.right = <<>>

C9_Merge ==
    BuildTreeStep =>
        LET before == HeapNodes(min_heap)
            new    == HeapNodes(min_heap') \ before
        IN  /\ Cardinality(new) = 1
            /\ Len(min_heap') = Len(min_heap) - 1
            /\ \A z \in new :
                   LET x == z.left[1]
                       y == z.right[1]
                   IN  /\ x \in before /\ y \in before /\ x # y
                       /\ \A n \in before : x.freq <= n.freq
                       /\ \A n \in before \ {x} : y.freq <= n.freq
                       /\ HeapNodes(min_heap') = (before \ {x, y}) \cup {z}

C9_TreeBuilding ==
    /\ [](C9_Variant /\ C9_Start /\ C9_Exit /\ C9_Internal)
    /\ [][C9_Merge]_vars

\* The loop was left after two merges of three leaves.
C9_Witness ==
    /\ pc = "build_codes"
    /\ merges = 2
    /\ Len(min_heap) = 1

\* C10: after code generation the two tables are inverses of each other, both
\* have as many entries as the input has distinct characters, and each
\* character's code is the left = 0 / right = 1 path from the root to its
\* leaf.
C10_TablesConsistent ==
    CodesBuilt =>
        /\ DOMAIN codes_hash_table = KeySet
        /\ Cardinality(DOMAIN codes_hash_table) = Cardinality(KeySet)
        /\ Cardinality(DOMAIN reverse_codes_hash_table) = Cardinality(KeySet)
        /\ \A s \in DOMAIN codes_hash_table :
               /\ codes_hash_table[s] \in DOMAIN reverse_codes_hash_table
               /\ reverse_codes_hash_table[codes_hash_table[s]] = s
        /\ \A b \in DOMAIN reverse_codes_hash_table :
               /\ reverse_codes_hash_table[b] \in DOMAIN codes_hash_table
               /\ codes_hash_table[reverse_codes_hash_table[b]] = b
        /\ \A s \in KeySet : <<s, codes_hash_table[s]>> \in LeafPaths(root, <<>>)

====
